---- MODULE Spec2Model ----
(***************************************************************************)
(* Model of src/code.py: Process, MemoryManager and DevOS.                 *)
(*                                                                         *)
(* The program is single-threaded, so each public call is one atomic       *)
(* action.  A call that raises keeps the effects of the statements that    *)
(* ran before the raise; the operators below therefore thread the state    *)
(* through the statements of each method one by one.                       *)
(*                                                                         *)
(* ProcessManager is referenced by DevOS (lines 117, 129, 142) but is not  *)
(* defined in the source; add_process / remove_process follow section 4.2  *)
(* of the specification.                                                   *)
(***************************************************************************)
EXTENDS Integers, FiniteSets, Sequences, TLC

VARIABLES total_memory, free_memory, processes, status,
          last, admitted, live, paired, net, fresh, script

vars == <<total_memory, free_memory, processes, status,
          last, admitted, live, paired, net, fresh, script>>

(* ---------------- bounds ---------------- *)
MaxPid == 3
MaxHalfQuotas == 8
MaxAmount == 4

(* ---------------- program constants ---------------- *)
\* the literal 1024 of run_process and terminate_process
FIXED_QUOTA == 1024

Pids == 1 .. MaxPid
\* total_memory values offered to the constructor, in steps of half a quota
Totals == { (FIXED_QUOTA * k) \div 2 : k \in 1 .. MaxHalfQuotas }
\* amounts offered to direct allocator calls (amount >= 0)
Amounts == { (FIXED_QUOTA * k) \div 2 : k \in 0 .. MaxAmount }

(* ---------------- Process ---------------- *)
\* Process.__init__ : self.status = "running"
Process_init == "running"

\* variant: terminate flips the status instead of setting it
Process_terminate_toggle(st) ==
  IF st = "terminated" THEN "running" ELSE "terminated"

\* Process.terminate : self.status = "terminated"
Process_terminate(st) == "terminated"

(* ---------------- MemoryManager ---------------- *)
\* names bound in the instance dictionary by MemoryManager.__init__
InstanceDict == {"total_memory", "free_memory"}

\* names bound to functions in the class body of MemoryManager
ClassDict == {"allocate_memory", "free_memory"}

\* Python attribute lookup on a MemoryManager instance: functions are
\* non-data descriptors, so the instance dictionary is searched first.
GetAttr(name) ==
  IF name \in InstanceDict THEN "int"
  ELSE IF name \in ClassDict THEN "function"
  ELSE "AttributeError"

\* variant: the free counter starts empty instead of full
MemoryManager_init_empty(total) ==
  [total_memory |-> total, free_memory |-> 0]

\* MemoryManager.__init__(total_memory)
MemoryManager_init(total) ==
  [total_memory |-> total, free_memory |-> total]

\* variant: a request that does not fit is handed whatever is left
allocate_memory_partial(fm, memory_required) ==
  IF memory_required <= fm
    THEN [free |-> fm - memory_required, ret |-> TRUE]
    ELSE [free |-> 0, ret |-> FALSE]

\* variant: the comparison with free_memory is missing
allocate_memory_unguarded(fm, memory_required) ==
  [free |-> fm - memory_required, ret |-> TRUE]

\* MemoryManager.allocate_memory(process, memory_required)
allocate_memory(fm, memory_required) ==
  IF memory_required <= fm
    THEN [free |-> fm - memory_required, ret |-> TRUE]
    ELSE [free |-> fm, ret |-> FALSE]

\* the call expression  memory_manager.free_memory(process, memory_to_free):
\* the attribute is looked up, then called; calling an int raises TypeError
\* and the body of the function (line 69) never runs.
free_memory_call(fm, memory_to_free) ==
  IF GetAttr("free_memory") = "function"
    THEN [free |-> fm + memory_to_free, exc |-> "none"]
    ELSE [free |-> fm,
          exc |-> IF GetAttr("free_memory") = "int" THEN "TypeError"
                  ELSE "AttributeError"]

(* ---------------- ProcessManager (specification section 4.2) ------------ *)
add_process(reg, p) ==
  IF p \in reg THEN [reg |-> reg, exc |-> "DuplicateProcess"]
  ELSE [reg |-> reg \cup {p}, exc |-> "none"]

remove_process(reg, p) ==
  IF p \in reg THEN [reg |-> reg \ {p}, exc |-> "none"]
  ELSE [reg |-> reg, exc |-> "UnknownProcess"]

\* variant: removing an entry also marks the Process object terminated
ProcessManager_remove_marks(reg, st, p) ==
  LET r == remove_process(reg, p) IN
  [reg |-> r.reg, exc |-> r.exc,
   status |-> IF r.exc = "none" THEN [st EXCEPT ![p] = "terminated"] ELSE st]

\* remove(identifier) seen from its caller: the registry after the call,
\* the Process objects after the call, and the error raised
ProcessManager_remove(reg, st, p) ==
  LET r == remove_process(reg, p) IN
  [reg |-> r.reg, exc |-> r.exc, status |-> st]

(* ---------------- DevOS ---------------- *)
\* variant: the memory is taken but add_process is never called
run_process_noadd(fm, reg, p) ==
  LET a == allocate_memory(fm, FIXED_QUOTA) IN
  IF a.ret
    THEN [free |-> a.free, reg |-> reg, ret |-> "running",
          steps |-> <<"allocate_memory">>]
    ELSE [free |-> a.free, reg |-> reg,
          ret |-> "insufficient_memory", steps |-> << >>]

\* variant: the result of allocate_memory is ignored
run_process_unchecked(fm, reg, p) ==
  LET a == allocate_memory(fm, FIXED_QUOTA)
      r == add_process(reg, p) IN
  [free |-> a.free, reg |-> r.reg,
   ret |-> IF r.exc # "none" THEN r.exc
           ELSE IF a.ret THEN "running" ELSE "insufficient_memory",
   steps |-> IF r.exc = "none" THEN <<"allocate_memory", "add_process">>
             ELSE <<"allocate_memory">>]

\* DevOS.run_process(process)
run_process(fm, reg, p) ==
  LET a == allocate_memory(fm, FIXED_QUOTA) IN
  IF a.ret
    THEN LET r == add_process(reg, p) IN
         [free |-> a.free, reg |-> r.reg,
          ret |-> IF r.exc = "none" THEN "running" ELSE r.exc,
          steps |-> IF r.exc = "none"
                      THEN <<"allocate_memory", "add_process">>
                      ELSE <<"allocate_memory">>]
    ELSE [free |-> a.free, reg |-> reg,
          ret |-> "insufficient_memory", steps |-> << >>]

\* variant: process.terminate() is called first, before the memory is freed
terminate_process_reordered(fm, reg, st, p) ==
  LET st1 == [st EXCEPT ![p] = Process_terminate(@)]
      f == free_memory_call(fm, FIXED_QUOTA) IN
  IF f.exc # "none"
    THEN [free |-> f.free, reg |-> reg, status |-> st1,
          ret |-> f.exc, steps |-> <<"terminate">>]
    ELSE LET r == remove_process(reg, p) IN
         [free |-> f.free, reg |-> r.reg, status |-> st1,
          ret |-> IF r.exc = "none" THEN "terminated" ELSE r.exc,
          steps |-> IF r.exc = "none"
                      THEN <<"terminate", "free_memory", "remove_process">>
                      ELSE <<"terminate", "free_memory">>]

\* variant: a failure of the release is swallowed and the call carries on
terminate_process_swallow(fm, reg, st, p) ==
  LET f == free_memory_call(fm, FIXED_QUOTA)
      r == remove_process(reg, p) IN
  [free |-> f.free, reg |-> r.reg,
   status |-> [st EXCEPT ![p] = Process_terminate(@)],
   ret |-> IF f.exc # "none" THEN f.exc
           ELSE IF r.exc # "none" THEN r.exc ELSE "terminated",
   steps |-> <<"remove_process", "terminate">>]

\* DevOS.terminate_process(process)
terminate_process(fm, reg, st, p) ==
  LET f == free_memory_call(fm, FIXED_QUOTA) IN
  IF f.exc # "none"
    THEN [free |-> f.free, reg |-> reg, status |-> st,
          ret |-> f.exc, steps |-> << >>]
    ELSE LET r == remove_process(reg, p) IN
         IF r.exc # "none"
           THEN [free |-> f.free, reg |-> r.reg, status |-> st,
                 ret |-> r.exc, steps |-> <<"free_memory">>]
           ELSE [free |-> f.free, reg |-> r.reg,
                 status |-> [st EXCEPT ![p] = Process_terminate(@)],
                 ret |-> "terminated",
                 steps |-> <<"free_memory", "remove_process", "terminate">>]

(* ---------------- state machine ---------------- *)
\* the example run of __main__ (total_memory = 4096: run process 1 and 2,
\* terminate process 1), followed by the run of a third process
ScenarioTotal == 4096
ScenarioA ==
  << <<"run_process", 1>>, <<"run_process", 2>>,
     <<"terminate_process", 1>>, <<"run_process", 3>> >>

\* how many calls of ScenarioA the calls made so far are, or -1 once a call
\* has departed from it
Follow(op, arg) ==
  IF /\ script >= 0
     /\ script < Len(ScenarioA)
     /\ ScenarioA[script + 1] = <<op, arg>>
    THEN script + 1
    ELSE -1

\* the record of the latest call: its name and argument, the state it
\* started from, how it ended and which of its steps completed
Call(op, arg, cls, ret, steps) ==
  [op |-> op, arg |-> arg, cls |-> cls, ret |-> ret, steps |-> steps,
   free0 |-> free_memory, total0 |-> total_memory,
   reg0 |-> processes, st0 |-> status]

\* DevOS(total_memory, root_directory) with no Process created yet
Init ==
  /\ total_memory \in Totals
  /\ free_memory = MemoryManager_init(total_memory).free_memory
  /\ processes = {}
  /\ status = [p \in Pids |-> "none"]
  /\ last = [op |-> "DevOS", arg |-> 0, cls |-> "na", ret |-> "none",
             steps |-> << >>, free0 |-> total_memory,
             total0 |-> total_memory, reg0 |-> {},
             st0 |-> [p \in Pids |-> "none"]]
  /\ admitted = {}
  /\ live = {}
  /\ paired = TRUE
  /\ net = 0
  /\ fresh = TRUE
  /\ script = 0

\* the caller creates Process(pid, name)
NewProcess(p) ==
  /\ status[p] = "none"
  /\ status' = [status EXCEPT ![p] = Process_init]
  /\ last' = Call("Process", p, "na", "none", << >>)
  /\ UNCHANGED <<total_memory, free_memory, processes,
                 admitted, live, paired, net, fresh, script>>

\* devos.run_process(process)
RunProcess(p) ==
  /\ status[p] # "none"
  /\ LET r == run_process(free_memory, processes, p)
         ok == r.ret = "running" IN
     /\ free_memory' = r.free
     /\ processes' = r.reg
     /\ last' = Call("run_process", p, "na", r.ret, r.steps)
     /\ admitted' = IF ok THEN admitted \cup {p} ELSE admitted
     /\ live' = IF ok THEN live \cup {p} ELSE live
     /\ net' = IF ok /\ paired THEN net + 1 ELSE net
  /\ fresh' = (fresh /\ p \notin admitted)
  /\ script' = Follow("run_process", p)
  /\ UNCHANGED <<total_memory, status, paired>>

\* how a terminate call relates to the admits before it
TermClass(p) ==
  IF p \in live THEN "paired"
  ELSE IF p \in admitted THEN "repeat"
  ELSE "never"

\* devos.terminate_process(process)
TerminateProcess(p) ==
  /\ status[p] # "none"
  /\ LET r == terminate_process(free_memory, processes, status, p) IN
     /\ free_memory' = r.free
     /\ processes' = r.reg
     /\ status' = r.status
     /\ last' = Call("terminate_process", p, TermClass(p), r.ret, r.steps)
  /\ paired' = (paired /\ p \in live)
  /\ net' = IF paired /\ p \in live THEN net - 1 ELSE net
  /\ live' = live \ {p}
  /\ script' = Follow("terminate_process", p)
  /\ UNCHANGED <<total_memory, admitted, fresh>>

Next ==
  \E p \in Pids : NewProcess(p) \/ RunProcess(p) \/ TerminateProcess(p)

Spec == Init /\ [][Next]_vars

\* memory_manager.allocate_memory(process, amount) called directly
AllocateMemory(amount) ==
  /\ LET a == allocate_memory(free_memory, amount) IN
     /\ free_memory' = a.free
     /\ last' = Call("allocate_memory", amount, "na",
                     IF a.ret THEN "True" ELSE "False", << >>)
  /\ script' = -1
  /\ UNCHANGED <<total_memory, processes, status,
                 admitted, live, paired, net, fresh>>

\* memory_manager.free_memory(process, amount) called directly
FreeMemory(amount) ==
  /\ LET f == free_memory_call(free_memory, amount) IN
     /\ free_memory' = f.free
     /\ last' = Call("free_memory", amount, "na", f.exc, << >>)
  /\ script' = -1
  /\ UNCHANGED <<total_memory, processes, status,
                 admitted, live, paired, net, fresh>>

NextMM ==
  \E amount \in Amounts : AllocateMemory(amount) \/ FreeMemory(amount)

SpecMM == Init /\ [][NextMM]_vars

\* every public operation of MemoryManager and DevOS
NextOps == Next \/ NextMM

SpecOps == Init /\ [][NextOps]_vars

\* process.terminate() called directly by the owner of the Process object
ProcessTerminate(p) ==
  /\ status[p] # "none"
  /\ status' = [status EXCEPT ![p] = Process_terminate(@)]
  /\ last' = Call("terminate", p, "na", "none", << >>)
  /\ script' = -1
  /\ UNCHANGED <<total_memory, free_memory, processes,
                 admitted, live, paired, net, fresh>>

NextLife == Next \/ \E p \in Pids : ProcessTerminate(p)

SpecLife == Init /\ [][NextLife]_vars

\* process_manager.remove_process(process) called directly
RemoveProcess(p) ==
  /\ status[p] # "none"
  /\ LET r == ProcessManager_remove(processes, status, p) IN
     /\ processes' = r.reg
     /\ status' = r.status
     /\ last' = Call("remove_process", p, "na", r.exc, << >>)
  /\ paired' = FALSE
  /\ script' = -1
  /\ UNCHANGED <<total_memory, free_memory, admitted, live, net, fresh>>

NextReg == Next \/ \E p \in Pids : RemoveProcess(p)

SpecReg == Init /\ [][NextReg]_vars

TypeOK ==
  /\ total_memory \in Totals
  /\ free_memory \in Int
  /\ processes \subseteq Pids
  /\ status \in [Pids -> {"none", "running", "terminated"}]
  /\ live \subseteq admitted
  /\ fresh \in BOOLEAN
  /\ script \in -1 .. Len(ScenarioA)
  /\ admitted \subseteq Pids
  /\ paired \in BOOLEAN
  /\ net \in Int

(* ======================= properties ======================= *)

\* C1: over admit/terminate sequences in which every terminate targets a
\* successfully admitted, not yet terminated process, free memory equals the
\* initial free memory minus (successful admits - terminates) x 1024, and
\* 0 <= free <= total.
C1_PairedAccounting ==
  paired =>
    /\ free_memory = total_memory - net * FIXED_QUOTA
    /\ 0 <= free_memory
    /\ free_memory <= total_memory

\* C2: allocate_memory with amount >= 0 either takes exactly the amount and
\* returns True (amount <= free), or returns False and leaves free and total
\* as they were; free never changes by anything but 0 or the full amount.
C2_AllocateAllOrNothing ==
  (last.op = "allocate_memory" /\ last.arg >= 0) =>
    /\ IF last.arg <= last.free0
         THEN free_memory = last.free0 - last.arg /\ last.ret = "True"
         ELSE /\ free_memory = last.free0
              /\ total_memory = last.total0
              /\ last.ret = "False"
    /\ last.free0 - free_memory \in {0, last.arg}

\* a request larger than a non-zero free amount has been refused
C2_Witness ==
  /\ last.op = "allocate_memory"
  /\ last.free0 > 0
  /\ last.arg > last.free0
  /\ last.ret = "False"

\* C3: calling free_memory as a method with an amount increments free by
\* exactly that amount, in every allocator state.
C3_ReleaseIncrements ==
  last.op = "free_memory" => free_memory = last.free0 + last.arg

\* C4: terminate_process on a registered running process releases 1024,
\* removes the process from the registry and sets its status to terminated,
\* in that order, and all three effects are in place when the call is over.
C4_TerminateEffects ==
  (/\ last.op = "terminate_process"
   /\ last.arg \in last.reg0
   /\ last.st0[last.arg] = "running") =>
    /\ last.steps = <<"free_memory", "remove_process", "terminate">>
    /\ free_memory = last.free0 + FIXED_QUOTA
    /\ last.arg \notin processes
    /\ status[last.arg] = "terminated"

\* C5: run_process of an unregistered process when free >= 1024 takes 1024
\* from free, adds the process to the registry and leaves it Running.
C5_AdmitGranted ==
  (/\ last.op = "run_process"
   /\ last.free0 >= FIXED_QUOTA
   /\ last.arg \notin last.reg0) =>
    /\ free_memory = last.free0 - FIXED_QUOTA
    /\ processes = last.reg0 \cup {last.arg}
    /\ status[last.arg] = "running"
    /\ last.ret = "running"

\* an unregistered process has been admitted
C5_Witness ==
  /\ last.op = "run_process"
  /\ last.arg \notin last.reg0
  /\ last.arg \in processes
  /\ free_memory = last.free0 - FIXED_QUOTA

\* C6 as stated: when free < 1024, run_process changes neither free nor the
\* registry, and the status of the process is not Running.
C6_RejectedNotRunning ==
  (last.op = "run_process" /\ last.free0 < FIXED_QUOTA) =>
    /\ free_memory = last.free0
    /\ processes = last.reg0
    /\ status[last.arg] # "running"

\* C6 amended: when free < 1024, run_process changes neither free, nor the
\* registry, nor any status; the process keeps the status "running" that
\* Process.__init__ gave it, and is Unadmitted only by being unregistered.
C6_RejectedNoMutation ==
  (last.op = "run_process" /\ last.free0 < FIXED_QUOTA) =>
    /\ last.ret = "insufficient_memory"
    /\ free_memory = last.free0
    /\ total_memory = last.total0
    /\ processes = last.reg0
    /\ status = last.st0
    /\ status[last.arg] = Process_init

\* an unregistered process has been rejected
C6_Witness ==
  /\ last.op = "run_process"
  /\ last.free0 < FIXED_QUOTA
  /\ last.ret = "insufficient_memory"
  /\ last.arg \notin processes

\* C7: every registered process has status running; no terminated process
\* is in the registry.
C7_RegisteredAreRunning ==
  \A p \in processes : status[p] = "running" /\ status[p] # "terminated"

\* terminate_process has been called on a registered process
C7_Witness ==
  /\ last.op = "terminate_process"
  /\ last.arg \in last.reg0
  /\ processes # {}

\* C8: a second terminate_process on the same process fails with
\* UnknownProcess.
C8_SecondTerminateUnknown ==
  (last.op = "terminate_process" /\ last.cls = "repeat") =>
    last.ret = "UnknownProcess"

\* C9: terminate_process on a process that was never admitted fails with
\* UnknownProcess after free has already grown by 1024.
C9_NeverAdmittedTerminate ==
  (last.op = "terminate_process" /\ last.cls = "never") =>
    /\ last.ret = "UnknownProcess"
    /\ free_memory = last.free0 + FIXED_QUOTA

\* C10: a run_process that starts with free = 0 is rejected and leaves free
\* at 0 and the registry as it was; with total = 1024 the first admit
\* succeeds and brings free to 0.
C10_FullRejects ==
  /\ (last.op = "run_process" /\ last.free0 = 0) =>
       /\ last.ret = "insufficient_memory"
       /\ free_memory = 0
       /\ processes = last.reg0
  /\ (/\ last.op = "run_process"
      /\ total_memory = FIXED_QUOTA
      /\ last.free0 = total_memory
      /\ last.reg0 = {}) =>
       /\ last.ret = "running"
       /\ free_memory = 0
       /\ processes = {last.arg}

\* total = 1024: P1 is registered, P2 has just been rejected
C10_Witness ==
  /\ total_memory = FIXED_QUOTA
  /\ last.op = "run_process"
  /\ last.arg = 2
  /\ last.ret = "insufficient_memory"
  /\ last.free0 = 0
  /\ free_memory = 0
  /\ processes = {1}

\* C11: the status of a Process object changes only from running to
\* terminated: never from terminated back to running, and a new object is
\* never terminated before it has been running.
C11_StatusOneWay ==
  \A p \in Pids :
    /\ (last.st0[p] # "none" /\ status[p] # last.st0[p]) =>
         (last.st0[p] = "running" /\ status[p] = "terminated")
    /\ last.st0[p] = "terminated" => status[p] = "terminated"
    /\ last.st0[p] = "none" => status[p] \in {"none", "running"}

\* a terminated process has been offered to run_process again and accepted
C11_Witness ==
  /\ last.op = "run_process"
  /\ last.st0[last.arg] = "terminated"
  /\ last.ret = "running"
  /\ status[last.arg] = "terminated"

\* C12: with total = 4096 the calls admit P1, admit P2, terminate P1,
\* admit P3 leave free at 3072, 2048, 3072, 2048; every admit succeeds;
\* terminate removes P1 and marks it terminated; the registry ends as
\* {P2, P3}.
C12_ScenarioA ==
  (/\ total_memory = ScenarioTotal
   /\ last.op \in {"run_process", "terminate_process"}) =>
    /\ script = 1 => (free_memory = 3072 /\ last.ret = "running")
    /\ script = 2 => (free_memory = 2048 /\ last.ret = "running")
    /\ script = 3 => /\ free_memory = 3072
                     /\ 1 \notin processes
                     /\ status[1] = "terminated"
    /\ script = 4 => /\ free_memory = 2048
                     /\ last.ret = "running"
                     /\ processes = {2, 3}

\* C13: run_process of a process that is already registered (with the quota
\* available, so that the registry add is reached) fails with
\* DuplicateProcess and leaves the registry and free as they were.
C13_DuplicateNoChange ==
  (/\ last.op = "run_process"
   /\ last.arg \in last.reg0
   /\ last.free0 >= FIXED_QUOTA) =>
    /\ last.ret = "DuplicateProcess"
    /\ processes = last.reg0
    /\ free_memory = last.free0

\* C14: no operation changes total_memory, and right after construction
\* free equals total.
C14_TotalFixed ==
  /\ total_memory = last.total0
  /\ last.op = "DevOS" => free_memory = total_memory

\* a direct allocation has followed an admission; total is still the
\* constructor's value although free is not
C14_Witness ==
  /\ last.op = "allocate_memory"
  /\ last.ret = "True"
  /\ processes # {}
  /\ free_memory < total_memory
  /\ total_memory = last.total0

\* C15: remove of a registered identifier deletes the registry entry and
\* leaves every Process status as it was.
C15_RemoveKeepsStatus ==
  (last.op = "remove_process" /\ last.arg \in last.reg0) =>
    /\ last.ret = "none"
    /\ processes = last.reg0 \ {last.arg}
    /\ status = last.st0

\* a running registered process has been removed and is still running
C15_Witness ==
  /\ last.op = "remove_process"
  /\ last.arg \in last.reg0
  /\ last.arg \notin processes
  /\ status[last.arg] = "running"

\* C16: while terminates are paired and every admitted identifier is new,
\* free + 1024 x (registered processes) = total, so at most total div 1024
\* processes are registered.
C16_Conservation ==
  (paired /\ fresh) =>
    /\ free_memory + FIXED_QUOTA * Cardinality(processes) = total_memory
    /\ Cardinality(processes) <= total_memory \div FIXED_QUOTA

\* two processes are registered and one of them has been the target of a
\* paired terminate
C16_Witness ==
  /\ paired
  /\ fresh
  /\ last.op = "terminate_process"
  /\ last.cls = "paired"
  /\ Cardinality(processes) >= 2
  /\ free_memory < total_memory

\* C17: when a step of terminate_process fails, the later steps do not run:
\* a failed release leaves registry and status alone, a failed remove leaves
\* the status alone.
C17_FailureStopsTerminate ==
  last.op = "terminate_process" =>
    /\ last.steps \in { << >>, <<"free_memory">>,
                        <<"free_memory", "remove_process", "terminate">> }
    /\ last.steps = << >> =>
         (processes = last.reg0 /\ status = last.st0)
    /\ last.steps = <<"free_memory">> => status = last.st0
    /\ last.ret # "terminated" => status = last.st0
    /\ last.ret = "terminated" => Len(last.steps) = 3

\* the release step of a terminate on a registered process has failed
C17_Witness ==
  /\ last.op = "terminate_process"
  /\ last.ret = "TypeError"
  /\ last.steps = << >>
  /\ last.arg \in processes
  /\ status[last.arg] = "running"

====
